---- MODULE Spec2Model ----
(***************************************************************************)
(* PersonStore (src/app/store/person.store.ts): an @ngrx/component-store   *)
(* holding { people, editId, editedPerson }, the editPerson effect that    *)
(* selects a record for editing, and the save pipeline                     *)
(*   saveEditPerson$ -> withLatestFrom(editedPerson$, editId$)             *)
(*                   -> switchMap(savePerson) -> subscribe(next, error).   *)
(*                                                                         *)
(* JavaScript values are tagged records: undefined, null, numbers, arrays  *)
(* and objects keep their kind, so that `!id`, `===`, `||` and object      *)
(* spread are computed as the language computes them.  Objects are         *)
(* compared by value; aliasing between an object and its copy is outside   *)
(* the model.  The console.log of the editedPerson$ projection (line 75)   *)
(* is a diagnostic with no effect on state and is not modelled; the        *)
(* console.log of the error handler (line 51) is counted in errorLog.      *)
(***************************************************************************)
EXTENDS Integers, Sequences, FiniteSets

(* ------------------------------ bounds -------------------------------- *)

\* longest people list handed to loadPeople
MaxLen == 2
\* largest id a Person of the universe carries (ids are 0..MaxId)
MaxId == 1
\* longest people list handed to loadPeople while the save pipeline is exercised
MaxRoster == 1
\* number of saveEditPerson() calls a behaviour may make
MaxSaves == 2

(* --------------------------- JavaScript values ------------------------ *)

Undefined == [kind |-> "undefined"]
Null == [kind |-> "null"]
Num(n) == [kind |-> "number", val |-> n]
Arr(s) == [kind |-> "array", items |-> s]
EmptyObject == [kind |-> "object"]
Person(i, n) == [kind |-> "object", id |-> i, name |-> n]

Names == {"Luke", "Leia"}
Ids == 0 .. MaxId
Persons == {Person(i, n) : i \in Ids, n \in Names}

RECURSIVE SeqsUpTo(_, _)
SeqsUpTo(S, n) ==
  IF n = 0 THEN {<<>>}
  ELSE LET shorter == SeqsUpTo(S, n - 1)
       IN shorter \cup {Append(s, x) : s \in {t \in shorter : Len(t) = n - 1}, x \in S}

\* what a caller may hand to loadPeople: an array of Persons, or null
PeopleArgs == {Null} \cup {Arr(s) : s \in SeqsUpTo(Persons, MaxLen)}
RosterArgs == {Null} \cup {Arr(s) : s \in SeqsUpTo(Persons, MaxRoster)}
\* what a caller may hand to editPerson: undefined, an id in use, or one past them
IdArgs == {Undefined} \cup {Num(i) : i \in 0 .. MaxId + 1}
\* what a caller may hand to setEditedPerson
EditedArgs == {Undefined} \cup Persons

\* the property `id` of an object (undefined when the object has none)
IdOf(o) == IF "id" \in DOMAIN o THEN Num(o.id) ELSE Undefined

\* !v
Not(v) ==
  \/ v.kind \in {"undefined", "null"}
  \/ v.kind = "number" /\ v.val = 0

\* a === b, for operands of which at most one is an object
StrictEquals(a, b) == a.kind # "object" /\ b.kind # "object" /\ a = b

\* { ...v }: the own properties of an object; none for undefined, null, a number
Spread(v) == IF v.kind = "object" THEN v ELSE EmptyObject

(* ------------------------------- state -------------------------------- *)

VARIABLES
  state,          \* the ComponentStore state: [people, editId, editedPerson]
  latestPeople,   \* withLatestFrom(this.people$) of the editPerson effect
  latestSave,     \* withLatestFrom(this.editedPerson$, this.editId$) of saveData$
  subscribed,     \* the subscriber of saveData$ is still subscribed
  subClosed,      \* this.sub.closed
  inner,          \* calls whose result saveData$ is subscribed to
  pending,        \* savePerson calls the service has not answered yet
  saveCalls,      \* number of savePerson invocations so far
  triggers,       \* number of saveEditPerson() calls so far
  errorLog,       \* number of errors written by the error handler
  event           \* the last event delivered to the store

vars == <<state, latestPeople, latestSave, subscribed, subClosed, inner, pending,
          saveCalls, triggers, errorLog, event>>

defaultState == [people |-> <<>>, editId |-> Undefined, editedPerson |-> Undefined]

(* ------------------------------ updaters ------------------------------ *)

\* variant: a null argument keeps the list already loaded
loadPeopleKeepsOnNull(s, people) ==
  [s EXCEPT !.people = IF people.kind = "array" THEN people.items ELSE s.people]

\* variant: loading a list starts from the default state again
loadPeopleResetsEdit(s, people) ==
  [defaultState EXCEPT !.people = IF people.kind = "array" THEN people.items ELSE <<>>]

loadPeople(s, people) ==
  [s EXCEPT !.people = IF people.kind = "array" THEN people.items ELSE <<>>]

setEditId(s, editId) == [s EXCEPT !.editId = editId]

setEditedPerson(s, editedPerson) == [s EXCEPT !.editedPerson = editedPerson]

\* variant: the edited record is dropped but the edit id is kept
clearEditedPersonOnly(s) == setEditedPerson(s, Undefined)

clearEditedPerson(s) == setEditedPerson(setEditId(s, Undefined), Undefined)

(* --------------------------- the editPerson effect -------------------- *)

\* variant: `!id` alone, which takes the id 0 for "no selection"
NoSelectionFalsy(id) == Not(id)

\* !id && id !== 0
NoSelection(id) == Not(id) /\ ~StrictEquals(id, Num(0))

\* people.find((person) => person.id === id)
Find(people, id) ==
  LET hits == {k \in 1 .. Len(people) : StrictEquals(IdOf(people[k]), id)}
  IN IF hits = {} THEN Undefined
     ELSE people[CHOOSE k \in hits : \A j \in hits : k <= j]

personToEdit(people, id) == IF NoSelection(id) THEN Undefined ELSE Find(people, id)

\* the tap of the effect: setEditId(id), then setEditedPerson({ ...personToEdit })
editPerson(s, people, id) ==
  setEditedPerson(setEditId(s, id), Spread(personToEdit(people, id)))

(* ------------------------------ operators of rxjs --------------------- *)

\* variant: the value seen at subscription time is kept for good
WithFirstFrom(kept, emitted) == kept

\* withLatestFrom keeps the last value its input emitted
WithLatestFrom(kept, emitted) == emitted

\* variant: mergeMap, which keeps every inner subscription
MergeMap(held, call) == held \cup {call}

\* switchMap drops the inner subscriptions it holds and subscribes to the new one
SwitchMap(held, call) == {call}

SaveView(s) == [editedPerson |-> s.editedPerson, editId |-> s.editId]

\* ([, person, editId]) => this.starsWarsWebService.savePerson(person, editId)
savePerson(latest) ==
  [kind |-> "savePerson", person |-> latest.editedPerson, editId |-> latest.editId]

\* the store publishes state s; every live withLatestFrom records its projection
Publish(s, live) ==
  /\ state' = s
  /\ latestPeople' = WithLatestFrom(latestPeople, s.people)
  /\ latestSave' = IF live THEN WithLatestFrom(latestSave, SaveView(s))
                   ELSE latestSave

Init ==
  /\ state = defaultState
  /\ latestPeople = defaultState.people
  /\ latestSave = SaveView(defaultState)
  /\ subscribed = TRUE
  /\ subClosed = FALSE
  /\ inner = {}
  /\ pending = {}
  /\ saveCalls = 0
  /\ triggers = 0
  /\ errorLog = 0
  /\ event = [op |-> "constructor", arg |-> Undefined]

(* ------------------------------ operations ---------------------------- *)

SaveFrame == UNCHANGED <<subscribed, subClosed, inner, pending, saveCalls, triggers,
                         errorLog>>

LoadPeople(people) ==
  /\ Publish(loadPeople(state, people), subscribed)
  /\ event' = [op |-> "loadPeople", arg |-> people]
  /\ SaveFrame

SetEditId(id) ==
  /\ Publish(setEditId(state, id), subscribed)
  /\ event' = [op |-> "setEditId", arg |-> id]
  /\ SaveFrame

SetEditedPerson(person) ==
  /\ Publish(setEditedPerson(state, person), subscribed)
  /\ event' = [op |-> "setEditedPerson", arg |-> person]
  /\ SaveFrame

EditPerson(id) ==
  /\ Publish(editPerson(state, latestPeople, id), subscribed)
  /\ event' = [op |-> "editPerson", arg |-> id]
  /\ SaveFrame

\* variant: cancelling also drops the save that is awaited
CancelEditPersonUnsubscribes ==
  /\ Publish(clearEditedPerson(state), subscribed)
  /\ event' = [op |-> "cancelEditPerson", arg |-> Undefined]
  /\ inner' = {}
  /\ UNCHANGED <<subscribed, subClosed, pending, saveCalls, triggers, errorLog>>

CancelEditPerson ==
  /\ Publish(clearEditedPerson(state), subscribed)
  /\ event' = [op |-> "cancelEditPerson", arg |-> Undefined]
  /\ SaveFrame

\* saveEditPerson(): saveEditPerson$.next(); a Subject without observers drops it.
\* The event records the arguments savePerson is invoked with, if it is invoked.
SaveEditPerson ==
  /\ triggers < MaxSaves
  /\ triggers' = triggers + 1
  /\ IF subscribed
     THEN /\ saveCalls' = saveCalls + 1
          /\ inner' = SwitchMap(inner, saveCalls + 1)
          /\ pending' = pending \cup {saveCalls + 1}
          /\ event' = [op |-> "saveEditPerson", arg |-> savePerson(latestSave)]
     ELSE /\ UNCHANGED <<saveCalls, inner, pending>>
          /\ event' = [op |-> "saveEditPerson", arg |-> Undefined]
  /\ UNCHANGED <<state, latestPeople, latestSave, subscribed, subClosed, errorLog>>

\* variant: the next handler refreshes the edit and forgets to clear it
saveNextKeepsEdit(s, people, person) == editPerson(s, people, person)

\* this.editPerson(person): the effect is handed the Person the service returned
saveRefresh(s, people, person) == editPerson(s, people, person)

\* the next handler of saveData$.subscribe
saveNext(s, people, person) == clearEditedPerson(saveRefresh(s, people, person))

\* variant: the error handler closes the edit as the next handler does
saveErrorClears(s) == clearEditedPerson(s)

\* the error handler of saveData$.subscribe leaves the state alone
saveError(s) == s

\* the service answers call c with a Person
SaveSucceeds(c, person) ==
  /\ c \in pending
  /\ pending' = pending \ {c}
  /\ IF c \in inner
     THEN /\ Publish(saveNext(state, latestPeople, person), subscribed)
          /\ inner' = inner \ {c}
          /\ event' = [op |-> "saveNext", arg |-> person]
     ELSE /\ UNCHANGED <<state, latestPeople, latestSave, inner>>
          /\ event' = [op |-> "discarded", arg |-> Num(c)]
  /\ UNCHANGED <<subscribed, subClosed, saveCalls, triggers, errorLog>>

\* variant: the error is caught inside switchMap, so saveData$ lives on
SaveFailsKeepsPipeline(c) ==
  /\ c \in pending
  /\ pending' = pending \ {c}
  /\ IF c \in inner
     THEN /\ state' = saveError(state)
          /\ errorLog' = errorLog + 1
          /\ inner' = inner \ {c}
          /\ event' = [op |-> "saveError", arg |-> Num(c)]
     ELSE /\ UNCHANGED <<state, errorLog, inner>>
          /\ event' = [op |-> "discarded", arg |-> Num(c)]
  /\ UNCHANGED <<latestPeople, latestSave, subscribed, subClosed, saveCalls, triggers>>

\* the service fails call c; an error of the inner observable ends saveData$
SaveFails(c) ==
  /\ c \in pending
  /\ pending' = pending \ {c}
  /\ IF c \in inner
     THEN /\ state' = saveError(state)
          /\ errorLog' = errorLog + 1
          /\ subscribed' = FALSE
          /\ inner' = {}
          /\ latestSave' = SaveView(defaultState)
          /\ event' = [op |-> "saveError", arg |-> Num(c)]
     ELSE /\ UNCHANGED <<state, errorLog, subscribed, inner, latestSave>>
          /\ event' = [op |-> "discarded", arg |-> Num(c)]
  /\ UNCHANGED <<latestPeople, subClosed, saveCalls, triggers>>

\* variant: teardown also puts the store back to its default state
NgOnDestroyResets ==
  /\ subClosed' = TRUE
  /\ subscribed' = FALSE
  /\ inner' = {}
  /\ latestSave' = SaveView(defaultState)
  /\ state' = defaultState
  /\ latestPeople' = defaultState.people
  /\ event' = [op |-> "ngOnDestroy", arg |-> Undefined]
  /\ UNCHANGED <<pending, saveCalls, triggers, errorLog>>

\* variant: saveData$ was never added to sub, so closing sub releases nothing
NgOnDestroyKeepsPipeline ==
  /\ subClosed' = TRUE
  /\ event' = [op |-> "ngOnDestroy", arg |-> Undefined]
  /\ UNCHANGED <<state, latestPeople, latestSave, subscribed, inner, pending,
                 saveCalls, triggers, errorLog>>

\* ngOnDestroy(): this.sub.unsubscribe()
NgOnDestroy ==
  /\ subClosed' = TRUE
  /\ subscribed' = FALSE
  /\ inner' = {}
  /\ latestSave' = SaveView(defaultState)
  /\ event' = [op |-> "ngOnDestroy", arg |-> Undefined]
  /\ UNCHANGED <<state, latestPeople, pending, saveCalls, triggers, errorLog>>

\* the commands of the edit workflow, the answers of the service, and teardown
NextWorkflow ==
  \/ \E people \in RosterArgs : LoadPeople(people)
  \/ \E id \in IdArgs : EditPerson(id)
  \/ CancelEditPerson
  \/ SaveEditPerson
  \/ \E c \in pending, person \in Persons : SaveSucceeds(c, person)
  \/ \E c \in pending : SaveFails(c)
  \/ NgOnDestroy

\* every operation of the store: the workflow and the two public field updaters
Next ==
  \/ NextWorkflow
  \/ \E id \in IdArgs : SetEditId(id)
  \/ \E person \in EditedArgs : SetEditedPerson(person)

\* the store without its save pipeline: the updaters, editPerson and cancel
NextEdit ==
  \/ \E people \in PeopleArgs : LoadPeople(people)
  \/ \E id \in IdArgs : SetEditId(id)
  \/ \E person \in EditedArgs : SetEditedPerson(person)
  \/ \E id \in IdArgs : EditPerson(id)
  \/ CancelEditPerson

Spec == Init /\ [][Next]_vars

SpecWorkflow == Init /\ [][NextWorkflow]_vars

SpecEdit == Init /\ [][NextEdit]_vars

(* ------------------------------- claims ------------------------------- *)

\* C1: before teardown, every saveEditPerson() trigger has invoked savePerson
\* exactly once, so the invocations number as many as the triggers.
C1_EveryTriggerInvokesSaveOnce == ~subClosed => saveCalls = triggers

\* C2: when a saveEditPerson() trigger invokes savePerson, the arguments are the
\* editedPerson and the editId of the store state at the moment of the trigger.
C2_SaveUsesStateAtTrigger ==
  (event.op = "saveEditPerson" /\ event.arg.kind = "savePerson")
    => /\ event.arg.person = state.editedPerson
       /\ event.arg.editId = state.editId

\* a second save is invoked with an edited copy that differs from the listed record
C2_Witness ==
  /\ event.op = "saveEditPerson"
  /\ saveCalls = 2
  /\ event.arg = savePerson([editedPerson |-> Person(1, "Leia"), editId |-> Num(1)])
  /\ state.people = <<Person(1, "Luke")>>

\* C3: the answer (success or failure) to a save that a later trigger has
\* superseded changes neither people, editId nor editedPerson and logs no error.
C3_SupersededResultIsDiscarded ==
  [][\A c \in pending \ pending' :
       c < saveCalls => (state' = state /\ errorLog' = errorLog)]_vars

\* the first save is answered while the second is awaited and the edit is open
C3_Witness ==
  /\ event = [op |-> "discarded", arg |-> Num(1)]
  /\ 2 \in inner
  /\ 2 \in pending
  /\ state.editId = Num(1)
  /\ state.editedPerson = Person(1, "Luke")

\* C4: once the success of a save that was not superseded has been handled,
\* editId and editedPerson are both undefined.
C4_SuccessClearsEdit ==
  event.op = "saveNext"
    => (state.editId = Undefined /\ state.editedPerson = Undefined)

\* a success carrying a Person whose id is listed has been handled
C4_Witness ==
  /\ event = [op |-> "saveNext", arg |-> Person(1, "Leia")]
  /\ state.people = <<Person(1, "Luke")>>

\* C5: a failed save leaves people, editId and editedPerson as they were, writes
\* one error to the log and invokes savePerson no further time.
C5_FailureLeavesEditOpen ==
  [][event'.op = "saveError"
       => /\ state' = state
          /\ errorLog' = errorLog + 1
          /\ saveCalls' = saveCalls
          /\ pending' \subseteq pending]_vars

\* a save failed while an edited copy was open
C5_Witness ==
  /\ event.op = "saveError"
  /\ errorLog = 1
  /\ state.editId = Num(1)
  /\ state.editedPerson = Person(1, "Leia")

\* C6: whenever editId is undefined, editedPerson is undefined.
C6_NoEditIdMeansNoEditedPerson ==
  state.editId = Undefined => state.editedPerson = Undefined

\* the first Person of people whose id is n, for the claims below
IsFirstWithId(people, n, person) ==
  \E k \in 1 .. Len(people) :
    /\ people[k].id = n
    /\ \A j \in 1 .. k - 1 : people[j].id # n
    /\ person = people[k]

HasId(people, n) == \E k \in 1 .. Len(people) : people[k].id = n

\* C7 (as stated): whenever editId is defined and a Person with that id is in
\* people, editedPerson equals that Person, also after a loadPeople call made
\* while an id is selected.
C7_EditedPersonTracksPeople ==
  (state.editId.kind = "number" /\ HasId(state.people, state.editId.val))
    => IsFirstWithId(state.people, state.editId.val, state.editedPerson)

\* C7 (amended): editPerson establishes that agreement, and editPerson,
\* cancelEditPerson, saveEditPerson, the answers to a save and teardown preserve
\* it; loadPeople does not.
C7_SelectionStaysInSync ==
  [][(\/ event'.op = "editPerson"
      \/ C7_EditedPersonTracksPeople /\ event'.op # "loadPeople")
       => C7_EditedPersonTracksPeople']_vars

\* a listed record is selected and is still in agreement after a failed save
C7_Witness ==
  /\ event.op = "saveError"
  /\ state.people = <<Person(0, "Luke")>>
  /\ state.editId = Num(0)
  /\ state.editedPerson = Person(0, "Luke")

\* C8: editPerson(id) with id listed in people, the id 0 included, leaves
\* editId = id and editedPerson equal to the first Person with that id.
C8_EditPersonSelectsFirstMatch ==
  (/\ event.op = "editPerson"
   /\ event.arg.kind = "number"
   /\ HasId(state.people, event.arg.val))
    => /\ state.editId = event.arg
       /\ IsFirstWithId(state.people, event.arg.val, state.editedPerson)

\* the id 0 is selected where two records carry it
C8_Witness ==
  /\ event = [op |-> "editPerson", arg |-> Num(0)]
  /\ state.people = <<Person(0, "Leia"), Person(0, "Luke")>>
  /\ state.editedPerson = Person(0, "Leia")

\* C9: editPerson(id) with id absent from people leaves editId = id and
\* editedPerson undefined.
C9_AbsentIdYieldsUndefined ==
  (/\ event.op = "editPerson"
   /\ event.arg.kind = "number"
   /\ ~HasId(state.people, event.arg.val))
    => (state.editId = event.arg /\ state.editedPerson = Undefined)

\* C10: editPerson(undefined) leaves editedPerson and editId undefined.
C10_UndefinedYieldsUndefined ==
  event = [op |-> "editPerson", arg |-> Undefined]
    => (state.editedPerson = Undefined /\ state.editId = Undefined)

\* C11: people is the argument of the most recent loadPeople call, the empty
\* list if that argument was null, and the empty list before the first call:
\* it starts empty, loadPeople sets it so, and nothing else changes it.
C11_PeopleIsLastLoaded ==
  /\ (event.op = "constructor" => state.people = <<>>)
  /\ [][/\ event'.op = "loadPeople"
             => state'.people = IF event'.arg = Null THEN <<>> ELSE event'.arg.items
        /\ event'.op # "loadPeople" => state'.people = state.people]_vars

\* null is loaded over a list while a save is awaited
C11_Witness ==
  /\ event = [op |-> "loadPeople", arg |-> Null]
  /\ state.people = <<>>
  /\ state.editedPerson = Person(1, "Luke")
  /\ pending = {1}

\* C12: cancelEditPerson() sets editId and editedPerson to undefined, leaves
\* people unchanged and invokes no save operation.
C12_CancelClearsEditOnly ==
  [][event'.op = "cancelEditPerson"
       => /\ state'.editId = Undefined
          /\ state'.editedPerson = Undefined
          /\ state'.people = state.people
          /\ UNCHANGED <<saveCalls, pending, inner, errorLog, subscribed, subClosed>>]_vars

\* an edit is cancelled while its save is awaited
C12_Witness ==
  /\ event.op = "cancelEditPerson"
  /\ state.people = <<Person(1, "Luke")>>
  /\ pending = {1}
  /\ inner = {1}

\* C13: a second ngOnDestroy leaves the state and the subscriptions exactly as
\* they were after the first, and writes no error.
C13_TeardownIsIdempotent ==
  [][(event'.op = "ngOnDestroy" /\ subClosed)
       => UNCHANGED <<state, latestPeople, latestSave, subscribed, subClosed, inner,
                      pending, saveCalls, triggers, errorLog>>]_vars

\* teardown is called again after a trigger that the closed pipeline dropped
C13_Witness ==
  /\ event.op = "ngOnDestroy"
  /\ triggers = 1
  /\ saveCalls = 0
  /\ errorLog = 0
  /\ state.editId = Num(1)

\* C14: after teardown the save pipeline is released: nothing is subscribed, the
\* answer to a save that was pending changes no state and logs nothing, and a
\* trigger invokes no savePerson call.
C14_TeardownReleasesPipeline ==
  /\ [](subClosed => (~subscribed /\ inner = {}))
  /\ [][subClosed
          => /\ (pending' # pending /\ pending' \subseteq pending)
                  => (state' = state /\ errorLog' = errorLog)
             /\ event'.op = "saveEditPerson"
                  => (saveCalls' = saveCalls /\ pending' = pending)]_vars

\* a save pending at teardown is answered after a later trigger was dropped
C14_Witness ==
  /\ event = [op |-> "discarded", arg |-> Num(1)]
  /\ subClosed
  /\ triggers = 2
  /\ saveCalls = 1
  /\ errorLog = 0
  /\ state.editId = Num(1)

\* C15: on a successful save, the state between the refresh and the clearing
\* has editId equal to the id of the returned Person and editedPerson equal to
\* the record of people with that id, or undefined if there is none.
C15_SuccessRefreshesById ==
  [][event'.op = "saveNext"
       => LET person == event'.arg
              refreshed == saveRefresh(state, latestPeople, person)
          IN /\ refreshed.editId = Num(person.id)
             /\ IF HasId(state.people, person.id)
                THEN IsFirstWithId(state.people, person.id, refreshed.editedPerson)
                ELSE refreshed.editedPerson = Undefined]_vars

\* C16: each updater replaces its own field only, and no operation other than
\* loadPeople changes people.
C16_UpdatersReplaceOwnField ==
  [][/\ event'.op = "loadPeople"
          => (state'.editId = state.editId /\ state'.editedPerson = state.editedPerson)
     /\ event'.op = "setEditId"
          => (state'.people = state.people /\ state'.editedPerson = state.editedPerson)
     /\ event'.op = "setEditedPerson"
          => (state'.people = state.people /\ state'.editId = state.editId)
     /\ event'.op \in {"editPerson", "setEditedPerson", "cancelEditPerson",
                       "saveEditPerson", "saveNext", "saveError", "discarded"}
          => state'.people = state.people]_vars

\* a list is loaded under an open edit, which stays as it was
C16_Witness ==
  /\ event.op = "loadPeople"
  /\ state.people = <<Person(0, "Luke")>>
  /\ state.editId = Num(1)
  /\ state.editedPerson = Person(1, "Leia")

\* C17: once a save has failed, every later saveEditPerson() trigger invokes no
\* savePerson call, changes no state and logs no error, and no answer to a save
\* is handled any more.
C17_FailureEndsSavePipeline ==
  [][errorLog > 0
       => /\ event'.op = "saveEditPerson"
               => /\ event'.arg = Undefined
                  /\ UNCHANGED <<state, saveCalls, pending, inner, errorLog>>
          /\ event'.op \notin {"saveNext", "saveError"}]_vars

\* an edit is open and a trigger after the failure was dropped, before teardown
C17_Witness ==
  /\ event = [op |-> "saveEditPerson", arg |-> Undefined]
  /\ errorLog = 1
  /\ ~subClosed
  /\ triggers = 2
  /\ saveCalls = 1
  /\ state.editId = Num(1)
  /\ state.editedPerson = Person(1, "Luke")

\* C18: selecting another record or cancelling does not supersede an awaited
\* save; the answer to a save that is still subscribed is always handled, and a
\* success clears editId and editedPerson whatever the selection has become.
C18_SuccessClearsNewerSelection ==
  [][/\ event'.op \in {"editPerson", "cancelEditPerson", "loadPeople"}
          => (inner' = inner /\ pending' = pending)
     /\ \A c \in pending \ pending' :
          c \in inner => event'.op \in {"saveNext", "saveError"}
     /\ event'.op = "saveNext"
          => (state'.editId = Undefined /\ state'.editedPerson = Undefined)]_vars

\* the first save is still awaited after the selection moved to another record
C18_Witness ==
  /\ event = [op |-> "editPerson", arg |-> Num(0)]
  /\ saveCalls = 1
  /\ inner = {1}
  /\ pending = {1}
  /\ state.people = <<Person(0, "Luke")>>
  /\ state.editedPerson = Person(0, "Luke")

====
